---- MODULE Spec2Model ----
(***************************************************************************)
(* Model of lib/streamcoordinator.js: the Streamer playback state machine  *)
(* (prime / stream / play / next / stop / currentTime / seek / load) and   *)
(* the StreamCoordinator that drives several streamers.                    *)
(*                                                                         *)
(* Time is counted in half seconds of the AudioContext clock, so that the  *)
(* 1 second chunk is 2 units, the 2000 ms look-ahead is 4 units and the    *)
(* 2.5 s track of the documentation is 5 units.                            *)
(*                                                                         *)
(* A JavaScript value that may be null/undefined is a sequence of length   *)
(* at most one: <<>> is null, <<v>> is the number or object v.             *)
(***************************************************************************)
EXTENDS Integers, Sequences, FiniteSets, TLC

VARIABLES
  now,        \* ac.currentTime, the device clock
  streamers,  \* the Streamer objects: index -> fields
  coord,      \* the StreamCoordinator's own fields
  barriers    \* pending Promise.all of StreamCoordinator.stream calls

vars == <<now, streamers, coord, barriers>>

----------------------------------------------------------------------------
(* Bounds of the model *)

MaxClock == 3
MaxStops == 1
MaxDur == 3
MaxPrimes == 1
MaxBatches == 1

(* Program constants, in half seconds *)

CHUNK == 2
LOOKAHEAD == 4

Streamers == {1, 2}
Direct == {1}

----------------------------------------------------------------------------
(* JavaScript values *)

None == <<>>
Some(v) == <<v>>

\* ToNumber: null converts to 0 in arithmetic
Num(x) == IF x = None THEN 0 ELSE x[1]

\* ToBoolean of a nullable number: null and 0 are falsy
Truthy(x) == x # None /\ x[1] # 0

Min(a, b) == IF a <= b THEN a ELSE b
Max(a, b) == IF a >= b THEN a ELSE b

\* typeof offset !== 'number' ? (startOffset !== null ? startOffset : 0) : offset
DefaultOffset(st, arg) ==
  IF arg = None
    THEN (IF st.startOffset # None THEN st.startOffset[1] ELSE 0)
    ELSE arg[1]

----------------------------------------------------------------------------
(* Streamer *)

\* the fields set by the constructor, and the asynchronous work the object
\* has pending: timers (setTimeout), fetches (store.getAudioBuffer promises of
\* next), primes (those of prime), out (the buffer sources connected to the
\* current trackNode, in the order of their start() calls) and onended (the
\* started sources whose onended handler is the one that calls stop(), each
\* with the clock value at which the device has played it to its end); muted
\* are the outputs of the started sources whose onended handler stream() has
\* replaced by () => {} before their `ended` event has fired.
\* A timer id is fresh among the live timers. stops is history: how many
\* times stop() has ended a playback span; a chunk request carries the value
\* it was issued under (span), a started source whether its request was
\* issued under an earlier value than the one it was started under (stale) and
\* whether it is the primed source (stream() alone calls play with startTime
\* still null).
NewStreamer ==
  [ ready       |-> FALSE,
    duration    |-> None,
    stopped     |-> TRUE,
    startTime   |-> None,
    startOffset |-> None,
    trackNode   |-> 0,
    gain        |-> 1,
    primed      |-> None,
    ending      |-> None,
    fetchtimer  |-> None,
    timers      |-> {},
    fetches     |-> {},
    primes      |-> {},
    out         |-> <<>>,
    onended     |-> {},
    muted       |-> {},
    stops       |-> 0 ]

\* mutant: every chunk is requested a whole second long
ChunkDuration_whole(st, offset) == CHUNK

\* Math.min( 1, this.duration - offset )
ChunkDuration(st, offset) == Min(CHUNK, Num(st.duration) - offset)

\* Object.assign( this, { duration, ready: true } )
Streamer_load(st, d) == [st EXCEPT !.duration = Some(d), !.ready = TRUE]

\* prime(): the two throws
PrimeThrows(st, arg) ==
  \/ ~st.ready
  \/ DefaultOffset(st, arg) >= Num(st.duration)

\* prime() up to its await: the chunk request is in flight
Streamer_prime(st, arg, batch) ==
  IF PrimeThrows(st, arg) THEN st
  ELSE LET offset == DefaultOffset(st, arg) IN
       [st EXCEPT !.primes = @ \cup
          {[offset |-> offset, dur |-> ChunkDuration(st, offset), batch |-> batch]}]

\* prime() after its await: this.primed = { offset, src }
PrimeResolved(st, p) ==
  [st EXCEPT !.primes = @ \ {p},
             !.primed = Some([offset |-> p.offset, dur |-> p.dur])]

\* the await of prime() rejects: prime() rejects, nothing is stored
PrimeRejected(st, p) == [st EXCEPT !.primes = @ \ {p}]

\* setTimeout( f, fetchtime ) at clock t: the clock value from which f may run;
\* a delay that is not positive lets it run at any time from now on (0)
Due(t, fetchtime) == IF fetchtime > 0 THEN t + fetchtime ELSE 0

\* the id setTimeout returns: one no live timer has
FreshTimer(st) ==
  CHOOSE i \in 1 .. Cardinality(st.timers) + 1 : \A tm \in st.timers : tm.id # i

\* play( src, when, offset, output ), src.buffer.duration = dur; src.start( when )
\* with when already past starts the source at once
play(st, t, dur, when, offset, output, req) ==
  LET chunk == [offset |-> offset, len |-> dur, when |-> when,
                output |-> output, late |-> Max(0, t - when),
                stale |-> (req # st.stops), primed |-> (st.startTime = None)]
      src   == [end |-> when + Max(0, t - when) + dur, output |-> output]
      id    == FreshTimer(st)
      s1    == [st EXCEPT !.out = Append(@, chunk)]
      when2   == when + dur
      offset2 == offset + dur
  IN IF offset2 >= Num(st.duration)
       THEN [s1 EXCEPT !.ending = Some(src), !.onended = @ \cup {src}]
       ELSE [s1 EXCEPT
               !.timers = @ \cup {[id |-> id,
                                   due |-> Due(t, (when2 - t) - LOOKAHEAD),
                                   when |-> when2, offset |-> offset2,
                                   output |-> output, span |-> req]},
               !.fetchtimer = Some(id)]

\* next( when, offset, output ) up to the promise: the chunk request is in flight
next(st, when, offset, output, req) ==
  [st EXCEPT !.fetches = @ \cup
     {[when |-> when, offset |-> offset, dur |-> ChunkDuration(st, offset),
       output |-> output, span |-> req]}]

\* mutant: the guard looks at the stopped flag alone
Stale_stoppedOnly(st, f) == st.stopped

\* the staleness guard of the .then of next
Stale(st, f) == st.stopped \/ f.output # st.trackNode

\* the .then( record => ... ) of next
FetchResolved(st, t, f) ==
  LET s1 == [st EXCEPT !.fetches = @ \ {f}] IN
  IF Stale(st, f) THEN s1
  ELSE LET when == IF f.when = 0 THEN t ELSE f.when
           s2   == IF s1.startTime = None
                     THEN [s1 EXCEPT !.startTime = Some(when)] ELSE s1
       IN play(s2, t, f.dur, when, f.offset, f.output, f.span)

\* mutant: the .catch of next re-issues the request
FetchRejected_retry(st, f) ==
  next([st EXCEPT !.fetches = @ \ {f}], f.when, f.offset, f.output, f.span)

\* the .catch( err => console.error( err ) ) of next
FetchRejected(st, f) == [st EXCEPT !.fetches = @ \ {f}]

\* the setTimeout callback of play
TimerFired(st, tm) ==
  next([st EXCEPT !.timers = @ \ {tm}], tm.when, tm.offset, tm.output, tm.span)

\* mutant: stop() without clearTimeout( this.fetchtimer )
Streamer_stop_keepsTimer(st, t) ==
  IF st.stopped \/ ~st.ready THEN st
  ELSE LET elapsed == t - Num(st.startTime)
           cursor  == Num(st.startOffset) + elapsed
       IN [st EXCEPT
             !.stopped = TRUE,
             !.trackNode = @ + 1,
             !.out = <<>>,
             !.stops = @ + 1,
             !.startTime = None,
             !.startOffset = IF cursor >= Num(st.duration) THEN Some(0)
                             ELSE Some(cursor)]

\* mutant: stop() without its early return
Streamer_stop_unguarded(st, t) ==
  LET elapsed == t - Num(st.startTime)
      cursor  == Num(st.startOffset) + elapsed
  IN [st EXCEPT
        !.stopped = TRUE,
        !.trackNode = @ + 1,
        !.out = <<>>,
        !.stops = @ + 1,
        !.startTime = None,
        !.startOffset = IF cursor >= Num(st.duration) THEN Some(0)
                        ELSE Some(cursor),
        !.timers = {tm \in @ : Some(tm.id) # st.fetchtimer}]

\* stop()
Streamer_stop(st, t) ==
  IF st.stopped \/ ~st.ready THEN st
  ELSE LET elapsed == t - Num(st.startTime)
           cursor  == Num(st.startOffset) + elapsed
       IN [st EXCEPT
             !.stopped = TRUE,
             !.trackNode = @ + 1,
             !.out = <<>>,
             !.stops = @ + 1,
             !.startTime = None,
             !.startOffset = IF cursor >= Num(st.duration) THEN Some(0)
                             ELSE Some(cursor),
             !.timers = {tm \in @ : Some(tm.id) # st.fetchtimer}]

\* mutant: stream() leaves the onended handler of the last final source alone
Streamer_stream_keepsHandler(st, t, arg) ==
  IF ~st.ready \/ ~st.stopped THEN st
  ELSE LET offset == DefaultOffset(st, arg)
           s1 == [st EXCEPT !.ending = None]
       IN IF offset >= Num(st.duration) THEN Streamer_stop(s1, t)
          ELSE LET s2 == [s1 EXCEPT !.stopped = FALSE,
                                    !.startOffset = Some(offset),
                                    !.primed = None]
               IN IF st.primed # None /\ st.primed[1].offset = offset
                    THEN play(s2, t, st.primed[1].dur, t, offset, s2.trackNode,
                              s2.stops)
                    ELSE next(s2, 0, offset, s2.trackNode, s2.stops)

\* mutant: stream() does not refuse a playing streamer
StreamThrows_readyOnly(st) == ~st.ready

\* stream(): the two throws
StreamThrows(st) == ~st.ready \/ ~st.stopped

\* stream( offset )
Streamer_stream(st, t, arg) ==
  IF StreamThrows(st) THEN st
  ELSE LET offset == DefaultOffset(st, arg)
           s1 == IF st.ending # None
                   THEN [st EXCEPT !.onended = @ \ {st.ending[1]},
                                   !.muted = @ \cup {src.output : src \in {st.ending[1]} \cap st.onended},
                                   !.ending = None]
                   ELSE st
       IN IF offset >= Num(st.duration) THEN Streamer_stop(s1, t)
          ELSE LET s2 == [s1 EXCEPT !.stopped = FALSE,
                                    !.startOffset = Some(offset),
                                    !.primed = None]
               IN IF st.primed # None /\ st.primed[1].offset = offset
                    THEN play(s2, t, st.primed[1].dur, t, offset, s2.trackNode,
                              s2.stops)
                    ELSE next(s2, 0, offset, s2.trackNode, s2.stops)

\* currentTime()
Streamer_currentTime(st, t) ==
  IF st.stopped THEN st.startOffset
  ELSE LET start   == IF Truthy(st.startTime) THEN st.startTime[1] ELSE t
           offset  == IF Truthy(st.startOffset) THEN st.startOffset[1] ELSE 0
           elapsed == t - start
       IN Some(offset + elapsed)

\* mutant: seek() on a playing streamer resumes instead of using its offset
Streamer_seek_resume(st, t, x) ==
  IF ~st.stopped
    THEN Streamer_stream(Streamer_stop(st, t), t, None)
    ELSE [st EXCEPT !.startOffset = Some(x)]

\* seek( offset )
Streamer_seek(st, t, x) ==
  IF ~st.stopped
    THEN Streamer_stream(Streamer_stop(st, t), t, Some(x))
    ELSE [st EXCEPT !.startOffset = Some(x)]

\* the `ended` event of buffer source src: its handler calls stop()
Ended(st, t, src) == Streamer_stop([st EXCEPT !.onended = @ \ {src}], t)

\* the `ended` event of the final source of output o, whose handler stream()
\* has replaced: () => {}
EndedMuted(st, t, o) == st

----------------------------------------------------------------------------
(* History *)

\* the offsets the calls are made with: the start, inside the first chunk, and
\* the first offset past the end
Args(st) == {0, 1, Num(st.duration)}

\* the durations of the assets: any for the first streamer, the longest for
\* the others
Durations(s) == IF s = 1 THEN 1 .. MaxDur ELSE {MaxDur}

\* stop() may end a span while fewer than MaxStops spans have been ended
CanStop(st) == st.stopped \/ ~st.ready \/ st.stops < MaxStops

----------------------------------------------------------------------------
(* The state after construction *)

Init ==
  /\ now = 0
  /\ streamers = [s \in Streamers |-> NewStreamer]
  /\ coord = [ready |-> FALSE, stopped |-> TRUE, startTime |-> None,
              startOffset |-> None, duration |-> None]
  /\ barriers = {}

----------------------------------------------------------------------------
(* Steps of one streamer driven directly *)

Tick ==
  /\ now < MaxClock
  /\ now' = now + 1
  /\ UNCHANGED <<streamers, coord, barriers>>

Load(s) ==
  /\ ~streamers[s].ready
  /\ \E d \in Durations(s) :
       streamers' = [streamers EXCEPT ![s] = Streamer_load(@, d)]
  /\ UNCHANGED <<now, coord, barriers>>

Prime(s) ==
  /\ Cardinality(streamers[s].primes) < MaxPrimes
  /\ \E arg \in {Some(x) : x \in Args(streamers[s])} :
       /\ streamers' = [streamers EXCEPT ![s] = Streamer_prime(@, arg, 0)]
  /\ UNCHANGED <<now, coord, barriers>>

PrimeDone(s) ==
  /\ \E p \in streamers[s].primes :
       /\ p.batch = 0
       /\ streamers' = [streamers EXCEPT ![s] = PrimeResolved(@, p)]
  /\ UNCHANGED <<now, coord, barriers>>

PrimeFail(s) ==
  /\ \E p \in streamers[s].primes :
       /\ p.batch = 0
       /\ streamers' = [streamers EXCEPT ![s] = PrimeRejected(@, p)]
  /\ UNCHANGED <<now, coord, barriers>>

Stream(s) ==
  /\ \E arg \in {None} \cup {Some(x) : x \in Args(streamers[s])} :
       /\ streamers' = [streamers EXCEPT ![s] = Streamer_stream(@, now, arg)]
  /\ UNCHANGED <<now, coord, barriers>>

Stop(s) ==
  /\ CanStop(streamers[s])
  /\ streamers' = [streamers EXCEPT ![s] = Streamer_stop(@, now)]
  /\ UNCHANGED <<now, coord, barriers>>

Seek(s) ==
  /\ streamers[s].ready
  /\ CanStop(streamers[s])
  /\ \E x \in Args(streamers[s]) :
       /\ streamers' = [streamers EXCEPT ![s] = Streamer_seek(@, now, x)]
  /\ UNCHANGED <<now, coord, barriers>>

FetchDone(s) ==
  /\ \E f \in streamers[s].fetches :
       /\ streamers' = [streamers EXCEPT ![s] = FetchResolved(@, now, f)]
  /\ UNCHANGED <<now, coord, barriers>>

FetchFail(s) ==
  /\ \E f \in streamers[s].fetches :
       streamers' = [streamers EXCEPT ![s] = FetchRejected(@, f)]
  /\ UNCHANGED <<now, coord, barriers>>

TimerFire(s) ==
  /\ \E tm \in streamers[s].timers :
       /\ tm.due <= now
       /\ streamers' = [streamers EXCEPT ![s] = TimerFired(@, tm)]
  /\ UNCHANGED <<now, coord, barriers>>

OnEnded(s) ==
  /\ \/ /\ CanStop(streamers[s])
        /\ \E src \in streamers[s].onended :
             /\ src.end <= now
             /\ streamers' = [streamers EXCEPT ![s] = Ended(@, now, src)]
     \/ \E o \in streamers[s].muted :
          streamers' = [streamers EXCEPT ![s] = EndedMuted(@, now, o)]
  /\ UNCHANGED <<now, coord, barriers>>

Next ==
  \/ Tick
  \/ \E s \in Direct : Load(s)
  \/ \E s \in Direct : Prime(s)
  \/ \E s \in Direct : PrimeDone(s)
  \/ \E s \in Direct : PrimeFail(s)
  \/ \E s \in Direct : Stream(s)
  \/ \E s \in Direct : Stop(s)
  \/ \E s \in Direct : Seek(s)
  \/ \E s \in Direct : FetchDone(s)
  \/ \E s \in Direct : FetchFail(s)
  \/ \E s \in Direct : TimerFire(s)
  \/ \E s \in Direct : OnEnded(s)

Spec == Init /\ [][Next]_vars

----------------------------------------------------------------------------
(* StreamCoordinator *)

\* the coordinator with the streamers it owns and the Promise.all barriers of
\* its stream() calls that can still release; a barrier is the batch number
\* its prime() calls carry, with the offset its callback closes over
World(c, sts, bs) == [coord |-> c, streamers |-> sts, barriers |-> bs]

\* the batch numbers in use: those of the barriers and of the prime() calls
\* still in flight
Batches(w) ==
  {b.id : b \in w.barriers}
    \cup UNION {{p.batch : p \in w.streamers[s].primes} : s \in Streamers}

\* a batch number not in use
FreshBatch(w) ==
  CHOOSE i \in 1 .. Cardinality(Batches(w)) + 1 : i \notin Batches(w)

\* this.streamers.forEach( streamer => streamer.stream( offset ) ), from the
\* i-th streamer on: a stream() that throws ends the loop
RECURSIVE StreamAll(_, _, _, _)
StreamAll(sts, i, t, offset) ==
  IF i \notin Streamers THEN sts
  ELSE IF StreamThrows(sts[i]) THEN sts
  ELSE StreamAll([sts EXCEPT ![i] = Streamer_stream(@, t, Some(offset))],
                 i + 1, t, offset)

\* stream( offset ) up to its return: the streamers are priming
StreamCoordinator_stream(w, t, arg) ==
  LET offset == DefaultOffset(w.coord, arg)
      id     == FreshBatch(w)
      threw  == \E s \in Streamers : PrimeThrows(w.streamers[s], Some(offset))
  IN World([w.coord EXCEPT !.stopped = FALSE, !.startOffset = Some(offset)],
           [s \in Streamers |-> Streamer_prime(w.streamers[s], Some(offset), id)],
           IF threw THEN w.barriers
           ELSE w.barriers \cup {[id |-> id, offset |-> offset]})

\* the .then of Promise.all( promises ) in stream()
Released(w, t, b) ==
  World(IF w.coord.startTime = None
          THEN [w.coord EXCEPT !.startTime = Some(t)] ELSE w.coord,
        StreamAll(w.streamers, 1, t, b.offset),
        w.barriers \ {b})

\* the prime() call p of streamer s resolves; when it is the last one of its
\* batch the barrier releases
PrimeSettled(w, t, s, p) ==
  LET sts == [w.streamers EXCEPT ![s] = PrimeResolved(@, p)]
      w1  == World(w.coord, sts, w.barriers)
      mine == {b \in w.barriers : b.id = p.batch}
      last == \A r \in Streamers : \A q \in sts[r].primes : q.batch # p.batch
  IN IF mine # {} /\ last THEN Released(w1, t, CHOOSE b \in mine : TRUE)
     ELSE w1

\* the prime() call p of streamer s rejects: Promise.all rejects, its .then
\* never runs
PrimeFailed(w, s, p) ==
  World(w.coord,
        [w.streamers EXCEPT ![s] = PrimeRejected(@, p)],
        {b \in w.barriers : b.id # p.batch})

\* stop()
StreamCoordinator_stop(w, t) ==
  IF w.coord.stopped THEN w
  ELSE LET elapsed == t - Num(w.coord.startTime)
           cursor  == Num(w.coord.startOffset) + elapsed
       IN World([w.coord EXCEPT
                   !.stopped = TRUE,
                   !.startTime = None,
                   !.startOffset = IF cursor >= Num(w.coord.duration)
                                     THEN Some(0) ELSE Some(cursor)],
                [s \in Streamers |-> Streamer_stop(w.streamers[s], t)],
                w.barriers)

\* currentTime(): the value it returns
StreamCoordinator_currentTime_value(w, t) ==
  IF w.coord.stopped THEN w.coord.startOffset
  ELSE LET start   == IF Truthy(w.coord.startTime) THEN w.coord.startTime[1] ELSE t
           offset  == IF Truthy(w.coord.startOffset) THEN w.coord.startOffset[1] ELSE 0
           current == offset + (t - start)
       IN IF current >= Num(w.coord.duration) THEN Some(0) ELSE Some(current)

\* currentTime(): the state it leaves
StreamCoordinator_currentTime(w, t) ==
  IF w.coord.stopped THEN w
  ELSE LET start   == IF Truthy(w.coord.startTime) THEN w.coord.startTime[1] ELSE t
           offset  == IF Truthy(w.coord.startOffset) THEN w.coord.startOffset[1] ELSE 0
           current == offset + (t - start)
       IN IF current >= Num(w.coord.duration) THEN StreamCoordinator_stop(w, t)
          ELSE w

\* seek( offset )
StreamCoordinator_seek(w, t, x) ==
  IF ~w.coord.stopped
    THEN StreamCoordinator_stream(StreamCoordinator_stop(w, t), t, Some(x))
    ELSE World([w.coord EXCEPT !.startOffset = Some(x)], w.streamers, w.barriers)

\* load() after its await: the maximum of the streamers' durations
StreamCoordinator_load(w) ==
  LET longest == CHOOSE d \in {Num(w.streamers[s].duration) : s \in Streamers} :
                   \A s \in Streamers : Num(w.streamers[s].duration) <= d
  IN World([w.coord EXCEPT !.duration = Some(longest), !.ready = TRUE],
           w.streamers, w.barriers)

\* mutant: solo() raises the chosen streamer without silencing the others
StreamCoordinator_solo_additive(w, index) ==
  World(w.coord,
        [s \in Streamers |->
           [w.streamers[s] EXCEPT !.gain = IF s = index THEN 1 ELSE @]],
        w.barriers)

\* solo( index )
StreamCoordinator_solo(w, index) ==
  World(w.coord,
        [s \in Streamers |->
           [w.streamers[s] EXCEPT !.gain = IF s = index THEN 1 ELSE 0]],
        w.barriers)

----------------------------------------------------------------------------
(* Steps of the coordinator and of the streamers it owns *)

\* the coordinator and its streamers in the current state
W == World(coord, streamers, barriers)

\* the state the step leaves
Becomes(w) ==
  /\ coord' = w.coord
  /\ streamers' = w.streamers
  /\ barriers' = w.barriers
  /\ UNCHANGED now

\* the offsets the coordinator's calls are made with
CArgs == {0, 1}

\* load(): the load() of streamer s resolves
CLoad(s) ==
  /\ coord.duration = None
  /\ Load(s)

\* load(): all streamers are loaded
CLoaded ==
  /\ coord.duration = None
  /\ \A s \in Streamers : streamers[s].ready
  /\ Becomes(StreamCoordinator_load(W))

CStream ==
  /\ coord.duration # None
  /\ \A s \in Streamers : Cardinality(streamers[s].primes) < MaxBatches
  /\ \E arg \in {None} \cup {Some(x) : x \in CArgs} :
       Becomes(StreamCoordinator_stream(W, now, arg))

CStop ==
  /\ coord.duration # None
  /\ \A s \in Streamers : CanStop(streamers[s])
  /\ Becomes(StreamCoordinator_stop(W, now))

CSeek ==
  /\ coord.duration # None
  /\ \A s \in Streamers : CanStop(streamers[s])
  /\ \A s \in Streamers : Cardinality(streamers[s].primes) < MaxBatches
  /\ \E x \in CArgs : Becomes(StreamCoordinator_seek(W, now, x))

CCurrentTime ==
  /\ coord.duration # None
  /\ \A s \in Streamers : CanStop(streamers[s])
  /\ Becomes(StreamCoordinator_currentTime(W, now))

CPrimeDone(s) ==
  \E p \in streamers[s].primes : Becomes(PrimeSettled(W, now, s, p))

CPrimeFail(s) ==
  \E p \in streamers[s].primes : Becomes(PrimeFailed(W, s, p))

NextC ==
  \/ Tick
  \/ \E s \in Streamers : CLoad(s)
  \/ CLoaded
  \/ CStream
  \/ CStop
  \/ CSeek
  \/ CCurrentTime
  \/ \E s \in Streamers : CPrimeDone(s)
  \/ \E s \in Streamers : CPrimeFail(s)
  \/ \E s \in Streamers : FetchDone(s)
  \/ \E s \in Streamers : FetchFail(s)
  \/ \E s \in Streamers : TimerFire(s)
  \/ \E s \in Streamers : OnEnded(s)

SpecC == Init /\ [][NextC]_vars

----------------------------------------------------------------------------
(* The coordinator with solo(): playback that is started and left running *)

\* stream() on the stopped coordinator
CStart ==
  /\ coord.stopped
  /\ CStream

CSolo ==
  /\ coord.duration # None
  /\ \E i \in Streamers : Becomes(StreamCoordinator_solo(W, i))

NextS ==
  \/ Tick
  \/ \E s \in Streamers : CLoad(s)
  \/ CLoaded
  \/ CStart
  \/ CSolo
  \/ \E s \in Streamers : CPrimeDone(s)
  \/ \E s \in Streamers : FetchDone(s)
  \/ \E s \in Streamers : TimerFire(s)

SpecS == Init /\ [][NextS]_vars

----------------------------------------------------------------------------
(* The coordinator started once, every request succeeding, every promise,
   timer and event that is pending eventually handled *)

NextL ==
  \/ Tick
  \/ \E s \in Streamers : CLoad(s)
  \/ CLoaded
  \/ CStart
  \/ \E s \in Streamers : CPrimeDone(s)
  \/ \E s \in Streamers : FetchDone(s)
  \/ \E s \in Streamers : TimerFire(s)
  \/ \E s \in Streamers : OnEnded(s)

SpecL == Init /\ [][NextL]_vars /\ WF_vars(NextL)

----------------------------------------------------------------------------
(* Properties of the streamer *)

\* the fields of a streamer a chunk request that completes may change
Effects(st) ==
  <<st.stopped, st.startTime, st.startOffset, st.ending, st.fetchtimer,
    st.timers, st.out, st.onended, st.trackNode>>

\* the length the chunk window at offset has to have
Window(st, offset) == Min(CHUNK, Num(st.duration) - offset)

\* C1: a chunk request issued in a playback span that completes after stop()
\* has ended that span (a new span begun or not) starts no source, sets no
\* timer and changes no field of the streamer; no started source on the
\* output comes from a request of an earlier span.
C1_StalenessGuard ==
  \A s \in Direct :
    LET st == streamers[s] IN
    /\ \A f \in st.fetches :
         f.span < st.stops =>
           Effects(FetchResolved(st, now, f)) = Effects(st)
    /\ \A i \in 1 .. Len(st.out) : ~st.out[i].stale

\* a request of an ended span is still in flight while a later span plays
C1_Witness ==
  \E s \in Direct :
    /\ ~streamers[s].stopped
    /\ \E f \in streamers[s].fetches : f.span < streamers[s].stops

\* C2: seek( x ) with 0 <= x < duration on a playing streamer leaves it playing
\* from x with no timer of the old span alive, and the only chunk it has
\* started or has a live request for is the window [x, x + min(1, duration - x));
\* in every playing state the first source on the output is the window at the
\* offset playback began from, no source comes from the request of an earlier
\* span, and every live timer belongs to the current span.
C2_SeekWindow ==
  \A s \in Direct :
    LET st == streamers[s] IN
    (st.ready /\ ~st.stopped) =>
      /\ Len(st.out) > 0 =>
           /\ st.out[1].offset = Num(st.startOffset)
           /\ st.out[1].len = Window(st, Num(st.startOffset))
      /\ \A i \in 1 .. Len(st.out) :
           ~st.out[i].stale /\ st.out[i].output = st.trackNode
      /\ \A tm \in st.timers : tm.span = st.stops /\ tm.output = st.trackNode
      /\ \A x \in 0 .. (Num(st.duration) - 1) :
           \A r \in {Streamer_seek(st, now, x)} :
           LET live == {f \in r.fetches : ~Stale(r, f)}
           IN /\ ~r.stopped
              /\ r.startOffset = Some(x)
              /\ r.timers \in {{}, {tm \in r.timers : tm.offset = x + Window(st, x)}}
              /\ \A tm \in r.timers : Some(tm.id) = r.fetchtimer
              /\ \A f \in live : f.offset = x /\ f.dur = Window(st, x)
              /\ \/ r.out = <<>> /\ live # {}
                 \/ /\ Len(r.out) = 1 /\ live = {}
                    /\ r.out[1].offset = x /\ r.out[1].len = Window(st, x)
                    /\ r.out[1].output = r.trackNode

\* after a stop() and a stream( 1 ) (which is what seek( 1 ) does) the window
\* at 1 is on the output while the request of the old span, for another
\* window, is still in flight
C2_Witness ==
  \E s \in Direct :
    LET st == streamers[s] IN
    /\ ~st.stopped /\ st.stops >= 1
    /\ Len(st.out) >= 1 /\ st.out[1].offset = 1
    /\ \E f \in st.fetches : f.span < st.stops /\ f.offset # 1

\* C3: the sources started in one playback span are windows of length
\* min(1, duration - offset), the first at the offset stream() was given, each
\* next one beginning where the one before ends in track offset and in start
\* time; once the final one is started (the ending source of this span) they
\* end at duration: they partition [offset, duration).
C3_Partition ==
  \A s \in Direct :
    LET st == streamers[s] IN
    /\ \A i \in 1 .. Len(st.out) :
         /\ st.out[i].offset < Num(st.duration)
         /\ st.out[i].len = Window(st, st.out[i].offset)
         /\ st.out[i].len > 0
         /\ i > 1 =>
              /\ st.out[i].offset = st.out[i - 1].offset + st.out[i - 1].len
              /\ st.out[i].when = st.out[i - 1].when + st.out[i - 1].len
    /\ (~st.stopped /\ Len(st.out) > 0) =>
         /\ st.out[1].offset = Num(st.startOffset)
         /\ LET final == st.out[Len(st.out)] IN
            (final.offset + final.len = Num(st.duration)) <=>
              (st.ending # None /\ st.ending[1].output = st.trackNode)
    /\ (~st.stopped /\ st.ending # None /\ st.ending[1].output = st.trackNode) =>
         Len(st.out) > 0

\* a span that began with the primed source has started two windows, the
\* second the final one
C3_Witness ==
  \E s \in Direct :
    LET st == streamers[s] IN
    /\ ~st.stopped /\ Len(st.out) = 2 /\ st.out[1].primed
    /\ st.out[1].offset = 0 /\ st.out[2].len < CHUNK
    /\ st.ending # None

\* C4: once the first source of a span is started to begin at t0, startTime is
\* t0 until the next stop(), so that currentTime() is offset + (now - t0),
\* whether that source is the primed one or comes from a fresh request.
C4_Anchor ==
  \A s \in Direct :
    LET st == streamers[s] IN
    (~st.stopped /\ Len(st.out) > 0) =>
      /\ st.startTime = Some(st.out[1].when)
      /\ Streamer_currentTime(st, now)
           = Some(st.out[1].offset + (now - st.out[1].when))

\* C5: when the ended event of the final source of an uninterrupted span
\* fires, the streamer is stopped with startOffset 0 and startTime null.
C5_EndOfTrack ==
  \A s \in Direct :
    LET st == streamers[s] IN
    \A src \in st.onended :
      (~st.stopped /\ src.output = st.trackNode /\ src.end <= now) =>
        LET r == Ended(st, now, src) IN
        r.stopped /\ r.startOffset = Some(0) /\ r.startTime = None

\* C6: once ready, the stored startOffset is in [0, duration).
C6_CursorInRange ==
  \A s \in Direct :
    LET st == streamers[s] IN
    (st.ready /\ st.startOffset # None) =>
      (0 <= st.startOffset[1] /\ st.startOffset[1] < st.duration[1])

\* C7: stream( o ) and then stop() e seconds of device clock later, with
\* o + e < duration, leaves startOffset = o + e, and a stream() without offset
\* then begins at o + e. Stated for the span that began with the primed
\* source, whose start time is the clock value stream() was called at.
C7_StopFold ==
  \A s \in Direct :
    LET st == streamers[s] IN
    (~st.stopped /\ Len(st.out) > 0 /\ st.out[1].primed) =>
      LET o == st.out[1].offset
          e == now - st.out[1].when
          r == Streamer_stop(st, now)
          again == Streamer_stream(r, now, None)
      IN (o + e < Num(st.duration)) =>
           /\ r.startOffset = Some(o + e)
           /\ again.startOffset = Some(o + e)

\* C8: stop() called a second time, at once or after the clock has advanced,
\* leaves the streamer, and the coordinator with all its streamers, exactly as
\* the first call left them: stopped flag, startOffset, startTime, trackNode
\* and timers.
C8_StopIdempotent ==
  \A t2 \in now .. MaxClock + 1 :
    /\ \A s \in Streamers :
         LET once == Streamer_stop(streamers[s], now)
         IN Streamer_stop(once, t2) = once
    /\ LET once == StreamCoordinator_stop(W, now)
       IN StreamCoordinator_stop(once, t2) = once

\* the coordinator plays since an earlier clock value, each streamer with a
\* timer pending: the first stop() moves every field the claim names
C8_Witness ==
  /\ ~coord.stopped /\ coord.startTime # None /\ now > Num(coord.startTime)
  /\ \A s \in Streamers :
       /\ ~streamers[s].stopped /\ streamers[s].timers # {}
       /\ Streamer_stop(streamers[s], now) # streamers[s]
  /\ StreamCoordinator_stop(W, now).coord # coord

\* C9: stream( offset ) with offset >= duration on a ready, stopped streamer
\* leaves it stopped, issues no request and no timer, and resets startOffset
\* to 0.
C9_PastEnd ==
  \A s \in Direct :
    LET st == streamers[s] IN
    (st.ready /\ st.stopped) =>
      \A x \in {Num(st.duration), Num(st.duration) + 1} :
        LET r == Streamer_stream(st, now, Some(x)) IN
        /\ r.stopped
        /\ r.fetches = st.fetches /\ r.timers = st.timers /\ r.out = st.out
        /\ Num(r.startOffset) = 0

\* C10: stream() throws when the streamer is not ready and when it is not
\* stopped, and prime() throws when the streamer is not ready and when
\* offset >= duration; the call then changes nothing of the streamer and
\* issues no request.
C10_Throws ==
  \A s \in Direct :
    LET st == streamers[s] IN
    \A arg \in {None} \cup {Some(x) : x \in 0 .. MaxDur + 1} :
      /\ (~st.ready \/ ~st.stopped) =>
           StreamThrows(st) /\ Streamer_stream(st, now, arg) = st
      /\ (~st.ready \/ DefaultOffset(st, arg) >= Num(st.duration)) =>
           PrimeThrows(st, arg) /\ Streamer_prime(st, arg, 0) = st

\* a playing streamer that holds a primed chunk, a pending timer and a request
\* in flight: stream() is refused, and so is prime() past the end
C10_Witness ==
  \E s \in Direct :
    LET st == streamers[s] IN
    /\ ~st.stopped /\ st.primed # None
    /\ st.timers # {} /\ st.fetches # {}

\* C14: when a chunk request of the playing span fails, the streamer stays
\* playing with startOffset, startTime, sources and timers as they were, and
\* nothing is left that could start a source or set a timer for the span: no
\* request that passes the guard, no timer, no ended handler; the completion
\* of any request still in flight changes nothing.
C14_FetchFailure ==
  \A s \in Direct :
    LET st == streamers[s] IN
    \A f \in st.fetches :
      ~Stale(st, f) =>
        LET r == FetchRejected(st, f) IN
        /\ ~r.stopped
        /\ r.startOffset = st.startOffset /\ r.startTime = st.startTime
        /\ r.trackNode = st.trackNode /\ r.out = st.out
        /\ r.ending = st.ending /\ r.primed = st.primed
        /\ r.timers = {} /\ r.onended = {}
        /\ \A g \in r.fetches :
             /\ Stale(r, g)
             /\ Effects(FetchResolved(r, now, g)) = Effects(r)
             /\ Effects(FetchRejected(r, g)) = Effects(r)

\* a span that has started a source short of the end of the track is playing
\* with no timer, no final source and no request of its own: its request failed
C14_Witness ==
  \E s \in Direct :
    LET st == streamers[s] IN
    /\ ~st.stopped /\ Len(st.out) > 0
    /\ st.out[Len(st.out)].offset + st.out[Len(st.out)].len < Num(st.duration)
    /\ st.timers = {} /\ st.ending = None
    /\ \A g \in st.fetches : Stale(st, g)

\* C15: a streamer has at most one timer alive and at most one request in
\* flight that passes the staleness guard, never both; a stopped streamer has
\* no timer alive.
C15_OneInFlight ==
  \A s \in Direct :
    LET st   == streamers[s]
        live == {f \in st.fetches : ~Stale(st, f)}
    IN /\ Cardinality(st.timers) <= 1
       /\ Cardinality(live) <= 1
       /\ ~(st.timers # {} /\ live # {})
       /\ st.stopped => st.timers = {}

\* a span has its timer pending while the request of an earlier span is still
\* in flight
C15_Witness ==
  \E s \in Direct :
    LET st == streamers[s] IN
    /\ ~st.stopped /\ st.stops >= 1 /\ Cardinality(st.timers) = 1
    /\ \E f \in st.fetches : Stale(st, f)

----------------------------------------------------------------------------
(* Properties of the coordinator *)

\* the prime() call p of streamer s is the last of its batch still in flight
LastOfBatch(s, p) ==
  \A q \in Streamers \ {s} : \A x \in streamers[q].primes : x.batch # p.batch

\* C11: while a prime() of a stream( offset ) call is still in flight, the
\* completion of another starts no streamer; when the last one completes, with
\* every streamer stopped, every streamer has its first source started to begin
\* at that clock value, which is the coordinator's startTime.
C11_Barrier ==
  \A s \in Streamers : \A p \in streamers[s].primes :
    (\E b \in barriers : b.id = p.batch) =>
      LET r == PrimeSettled(W, now, s, p) IN
      IF ~LastOfBatch(s, p)
        THEN \A q \in Streamers :
               /\ r.streamers[q].stopped = streamers[q].stopped
               /\ r.streamers[q].out = streamers[q].out
               /\ r.streamers[q].fetches = streamers[q].fetches
        ELSE (\A q \in Streamers : streamers[q].stopped) =>
               /\ r.coord.startTime = Some(now)
               /\ \A q \in Streamers :
                    /\ ~r.streamers[q].stopped
                    /\ Len(r.streamers[q].out) = 1
                    /\ r.streamers[q].out[1].when = now

\* C12: while the coordinator is not stopped and has a startTime, when
\* startOffset + (now - startTime) has reached duration currentTime() returns 0
\* and leaves the coordinator stopped with startOffset 0 and startTime null and
\* every streamer stopped; below duration it returns that value and changes
\* nothing.
C12_LazyEnd ==
  (~coord.stopped /\ coord.duration # None /\ coord.startTime # None) =>
    LET current == Num(coord.startOffset) + (now - coord.startTime[1])
        value   == StreamCoordinator_currentTime_value(W, now)
        r       == StreamCoordinator_currentTime(W, now)
    IN IF current >= coord.duration[1]
         THEN /\ value = Some(0)
              /\ r.coord.stopped
              /\ r.coord.startOffset = Some(0)
              /\ r.coord.startTime = None
              /\ \A s \in Streamers : r.streamers[s].stopped
         ELSE value = Some(current) /\ r = W

\* C13: solo( i ) leaves streamer i with gain 1 and every other streamer with
\* gain 0, and changes nothing else of any streamer (startOffset, stopped,
\* startTime, primed, timers, ...) nor of the coordinator.
C13_Solo ==
  \A i \in Streamers :
    LET r == StreamCoordinator_solo(W, i) IN
    /\ \A s \in Streamers :
         /\ r.streamers[s].gain = (IF s = i THEN 1 ELSE 0)
         /\ [r.streamers[s] EXCEPT !.gain = streamers[s].gain] = streamers[s]
    /\ r.coord = coord
    /\ r.barriers = barriers

\* one streamer is soloed while both play, each with a timer pending, and a
\* solo of the other one changes the gains again
C13_Witness ==
  /\ ~coord.stopped
  /\ \E i \in Streamers :
       /\ streamers[i].gain = 1
       /\ \A s \in Streamers \ {i} : streamers[s].gain = 0
  /\ \A s \in Streamers : ~streamers[s].stopped /\ streamers[s].timers # {}
  /\ \A i \in Streamers : streamers[i].gain = 0 => StreamCoordinator_solo(W, i) # W

\* C16: stop() on the coordinator that is not stopped leaves startOffset at
\* the position playback has reached: startOffset plus the time since the
\* captured startTime, startOffset itself while no startTime is captured yet
\* (the barrier has not released), unless that position has reached duration.
C16_StopKeepsCursor ==
  (~coord.stopped /\ coord.duration # None) =>
    LET position == IF coord.startTime = None THEN Num(coord.startOffset)
                    ELSE Num(coord.startOffset) + (now - coord.startTime[1])
        r == StreamCoordinator_stop(W, now)
    IN position < coord.duration[1] =>
         /\ r.coord.stopped
         /\ r.coord.startOffset = Some(position)

\* C17: whenever the coordinator is stopped, every streamer it owns is
\* stopped.
C17_StoppedTogether ==
  coord.stopped => \A s \in Streamers : streamers[s].stopped

\* C18: when the last prime() of a batch completes and the release starts a
\* streamer, the offset that streamer starts from is the coordinator's
\* startOffset, the offset of its latest stream() or seek() call.
C18_PhaseLock ==
  \A s \in Streamers : \A p \in streamers[s].primes :
    ((\E b \in barriers : b.id = p.batch) /\ LastOfBatch(s, p)) =>
      LET r == PrimeSettled(W, now, s, p) IN
      \A q \in Streamers :
        (streamers[q].stopped /\ ~r.streamers[q].stopped) =>
          r.streamers[q].startOffset = r.coord.startOffset

\* C19: once the coordinator has been started at an offset, every streamer
\* whose duration is greater than that offset eventually plays (is playing, or
\* has played a span to its end), whatever the durations of the others.
C19_AllStart ==
  \A s \in Streamers :
    (~coord.stopped /\ Num(streamers[s].duration) > Num(coord.startOffset))
      ~> (~streamers[s].stopped \/ streamers[s].stops > 0)

\* C20: the `ended` event of the final source of an earlier span, fired while a
\* later span plays, changes nothing of the streamer: it keeps playing with
\* the same startOffset, startTime, trackNode, sources, timers and requests.
C20_OldEndedIgnored ==
  \A s \in Direct :
    LET st == streamers[s] IN
    ~st.stopped =>
      /\ \A src \in st.onended :
           src.output # st.trackNode =>
             \A r \in {Ended(st, now, src)} :
               /\ ~r.stopped
               /\ r.startOffset = st.startOffset /\ r.startTime = st.startTime
               /\ r.trackNode = st.trackNode /\ r.out = st.out
               /\ r.timers = st.timers /\ r.fetches = st.fetches
               /\ r.ending = st.ending /\ r.fetchtimer = st.fetchtimer
      /\ \A o \in st.muted :
           o # st.trackNode => EndedMuted(st, now, o) = st

\* a span plays with a source on its output while the final source of an
\* earlier span, started but not yet ended when the span began, has its handler
\* replaced
C20_Witness ==
  \E s \in Direct :
    LET st == streamers[s] IN
    /\ ~st.stopped /\ Len(st.out) > 0
    /\ \E o \in st.muted : o # st.trackNode

====
